---- MODULE Spec2Model ----
(***************************************************************************)
(* Trade decision and execution engine of AutomatedTrading:                *)
(*   src/src/trading_logic/trade_simulator.py         (TradeSimulator)     *)
(*   src/src/trading_logic/trade_execution_manager.py (row loop)           *)
(*   src/src/financial_analysis/trading_strategies.py (majority vote)      *)
(*                                                                         *)
(* Prices and capital are Python floats in the source.  The model keeps    *)
(* them as integers and every derived real (return percentage, stop        *)
(* percentage) as an exact reduced fraction <<num, den>>, den > 0, so the  *)
(* comparisons of the code are decided exactly.                            *)
(***************************************************************************)
EXTENDS Integers, Sequences, FiniteSets, TLC

VARIABLES
    initial_capital,  \* TradeSimulator.initial_capital: the available capital
    positions,        \* TradeSimulator.positions: the dict symbol -> position,
                      \*   kept as the set of its items (one record per key)
    trade_history,    \* TradeSimulator.trade_history: list of trade records
    positions_file,   \* the JSON file at positions_file_path
    last,             \* the last call made on the simulator and its outcome
    decision_dict,    \* argument of majority_voting_strategy (SpecVote)
    majority_vote,    \* its result (SpecVote)
    stop_args,        \* arguments of calculate_dynamic_trailing_stop_loss (SpecStop)
    stop_loss,        \* its result (SpecStop)
    call_args,        \* arguments of the call under examination in the
                      \*   single-call specifications (SpecShares, ...)
    call_state        \* its progress and result; call_state.pc is its position

vars == <<initial_capital, positions, trade_history, positions_file, last,
          decision_dict, majority_vote, stop_args, stop_loss,
          call_args, call_state>>

simVars == <<initial_capital, positions, trade_history, positions_file, last>>
voteVars == <<decision_dict, majority_vote>>
stopVars == <<stop_args, stop_loss>>
callVars == <<call_args, call_state>>

-----------------------------------------------------------------------------
(* Bounds of the model *)

\* longest trade history from which a further call is explored
MaxTrades == 2
\* prices of the pure stop-loss specification are 1..MaxStopPrice
MaxStopPrice == 200

(* Program constants *)

\* TradeSimulator.__init__ defaults
DefaultInitialCapital == 10000
TransactionCost == 20

Symbols == {"AAPL", "MSFT"}
Prices == {100, 120, 250}
\* each symbol has its own price series
PricesOf(symbol) == IF symbol = "AAPL" THEN Prices ELSE {100}
InitialCapitals == {250, DefaultInitialCapital}
PositionTypes == {"long", "short"}
TradeSignals == {"BUY", "SELL"}
\* a signal execute_trade does not know
InvalidSignals == {"STRONG_BUY"}
\* a date is a str (the documented type) or a pandas Timestamp (what the
\* row loop passes, from read_csv(parse_dates=['date']))
\* The day of a call only flows into entry_date, the records' date and
\* holding_time, never into a decision: the calls of the model share one day.
Days == {1}
StrDates == [kind : {"str"}, t : Days]
TimestampDates == [kind : {"Timestamp"}, t : Days]
\* outcome of one write of the positions file: it succeeds, or open() raises IOError
WriteOutcomes == {"ok", "ioerror"}
\* a call that writes twice (a close, then an open) stops at the first failure
WriteOutcomePairs == {<<"ok", "ok">>, <<"ioerror", "ok">>, <<"ok", "ioerror">>}

-----------------------------------------------------------------------------
(* Exact arithmetic on fractions <<num, den>> kept with den > 0 *)

Abs(x) == IF x < 0 THEN -x ELSE x

RECURSIVE Gcd(_, _)
Gcd(a, b) == IF b = 0 THEN a ELSE Gcd(b, a % b)

\* n / d for d # 0, the sign carried by the numerator
Rat(n, d) == LET g == Gcd(Abs(n), Abs(d))
                 num == IF d < 0 THEN -n ELSE n
             IN <<num \div g, Abs(d) \div g>>
R(n) == <<n, 1>>
RLt(a, b) == a[1] * b[2] < b[1] * a[2]
RLe(a, b) == a[1] * b[2] <= b[1] * a[2]
RSub(a, b) == Rat(a[1] * b[2] - b[1] * a[2], a[2] * b[2])
RMax(a, b) == IF RLt(a, b) THEN b ELSE a

\* Python int(): truncation toward zero
IntTrunc(n, d) == IF (n >= 0) = (d > 0)
                  THEN Abs(n) \div Abs(d) ELSE -(Abs(n) \div Abs(d))
Max(a, b) == IF a >= b THEN a ELSE b

-----------------------------------------------------------------------------
(* TradeSimulator: pure helpers *)

\* the sizing without its one-share minimum
calculate_shares_no_minimum(capital, price) ==
    IntTrunc(capital, 5 * price)

\* int(0.01 * capital / (price * 0.05)) floored at one share
calculate_shares(capital, price) ==
    Max(IntTrunc(capital, 5 * price), 1)

\* the favourable-signed return in percent
return_percentage(current_price, entry_price, position_type) ==
    IF position_type = "long"
    THEN Rat(100 * (current_price - entry_price), entry_price)
    ELSE Rat(100 * (entry_price - current_price), entry_price)

\* variant: a return of exactly 5 percent still counts as below the first step
calculate_dynamic_trailing_stop_loss_le(current_price, entry_price, position_type) ==
    LET r == return_percentage(current_price, entry_price, position_type) IN
    IF RLe(r, R(5)) THEN R(0)
    ELSE IF RLe(R(5), r) /\ RLt(r, R(10)) THEN R(50)
    ELSE RMax(RSub(R(50), RSub(r, R(10))), R(10))

\* variant: the floor of the last step is 5 instead of 10
calculate_dynamic_trailing_stop_loss_floor5(current_price, entry_price, position_type) ==
    LET r == return_percentage(current_price, entry_price, position_type) IN
    IF RLt(r, R(5)) THEN R(0)
    ELSE IF RLe(R(5), r) /\ RLt(r, R(10)) THEN R(50)
    ELSE RMax(RSub(R(50), RSub(r, R(10))), R(5))

calculate_dynamic_trailing_stop_loss(current_price, entry_price, position_type) ==
    LET r == return_percentage(current_price, entry_price, position_type) IN
    IF RLt(r, R(5)) THEN R(0)
    ELSE IF RLe(R(5), r) /\ RLt(r, R(10)) THEN R(50)
    ELSE RMax(RSub(R(50), RSub(r, R(10))), R(10))

\* cost = shares * price + self.transaction_cost
open_cost(shares, price) == shares * price + TransactionCost

profit_loss(position, price) ==
    IF position.type = "long"
    THEN (price - position.entry_price) * position.shares
    ELSE (position.entry_price - price) * position.shares

\* variant: the close forgets the transaction cost of its leg
net_profit_loss_no_cost(position, price) == profit_loss(position, price)

net_profit_loss(position, price) == profit_loss(position, price) - TransactionCost

\* (exit - entry) in days; the dates of the model are whole days
calculate_holding_time(exit_date, entry_date) == exit_date.t - entry_date.t

NoDate == [kind |-> "None", t |-> 0]

-----------------------------------------------------------------------------
(* The positions dict as the set of its items *)

HasPosition(pos, symbol) == \E p \in pos : p.symbol = symbol
PositionOf(pos, symbol) == CHOOSE p \in pos : p.symbol = symbol
\* variant: the item is added beside the one the key already has
DictSetKeepOld(pos, symbol, item) == pos \cup {item}

\* positions[symbol] = item
DictSet(pos, symbol, item) == {p \in pos : p.symbol # symbol} \cup {item}
\* positions.pop(symbol, None)
DictPop(pos, symbol) == {p \in pos : p.symbol # symbol}

-----------------------------------------------------------------------------
(* TradeSimulator: methods, as functions of the simulator state            *)
(*   self = [initial_capital, positions, trade_history, positions_file,    *)
(*           exc, log]                                                     *)
(* exc is the exception leaving the call ("none": it returned), log the    *)
(* WARNING and ERROR lines it logged.                                      *)

Raise(self, e) == [self EXCEPT !.exc = e]
Log(self, line) == [self EXCEPT !.log = @ \cup {line}]

\* json.dump fails with TypeError on a pandas Timestamp
JsonSerializable(pos) == \A p \in pos : p.entry_date.kind = "str"

\* JSON text of a value: a string literal, an integer literal ("20") or a
\* literal with a fraction ("100.0"), which json.load reads back as str,
\* int and float
JsonString(v) == <<"string", v>>
JsonInt(v) == <<"int", v>>
JsonReal(v) == <<"real", v>>

\* json.dump(self.positions): one member per key; the file holds text only
json_dump(pos) ==
    {[key |-> JsonString(p.symbol),
      value |-> [type |-> JsonString(p.type),
                 entry_price |-> JsonReal(p.entry_price),
                 shares |-> JsonInt(p.shares),
                 entry_date |-> JsonString(p.entry_date.t),
                 max_swing_high |-> JsonReal(p.max_swing_high),
                 trailing_stop_loss |-> JsonReal(p.trailing_stop_loss)]] : p \in pos}

\* json.load: the dict of the members, every string a str
json_load(content) ==
    {[symbol |-> m.key[2], type |-> m.value.type[2],
      entry_price |-> m.value.entry_price[2], shares |-> m.value.shares[2],
      entry_date |-> [kind |-> "str", t |-> m.value.entry_date[2]],
      max_swing_high |-> m.value.max_swing_high[2],
      trailing_stop_loss |-> m.value.trailing_stop_loss[2]] : m \in content}

\* what open(path, 'w') followed by a failed json.dump leaves: text that
\* does not parse
BrokenFile == [valid |-> FALSE, content |-> {}]

\* variant: a failed write is logged and not raised
update_positions_file_swallows(self, io) ==
    IF io = "ioerror"
    THEN Log(self, "ERROR write failed")
    ELSE IF ~JsonSerializable(self.positions)
    THEN Raise([self EXCEPT !.positions_file = BrokenFile], "TypeError")
    ELSE [self EXCEPT !.positions_file =
             [valid |-> TRUE, content |-> json_dump(self.positions)]]

update_positions_file(self, io) ==
    IF io = "ioerror"
    THEN Raise(Log(self, "ERROR write failed"), "IOError")
    ELSE IF ~JsonSerializable(self.positions)
    THEN Raise([self EXCEPT !.positions_file = BrokenFile], "TypeError")
    ELSE [self EXCEPT !.positions_file =
             [valid |-> TRUE, content |-> json_dump(self.positions)]]

\* load_positions on an existing file: the parsed dict, or JSONDecodeError
load_positions(file) ==
    IF file.valid
    THEN [positions |-> json_load(file.content), exc |-> "none"]
    ELSE [positions |-> {}, exc |-> "JSONDecodeError"]

\* variant: the new record is put in front of the history
record_trade_prepends(self, action, position_type, symbol, price, shares, date, entry_date) ==
    LET holding_time == IF entry_date # NoDate
                        THEN calculate_holding_time(date, entry_date) ELSE 0
        trade == [action |-> action, position_type |-> position_type,
                  symbol |-> symbol, price |-> price, shares |-> shares,
                  date |-> date, balance_after_trade |-> self.initial_capital,
                  holding_time |-> holding_time]
    IN [self EXCEPT !.trade_history = <<trade>> \o @]

record_trade(self, action, position_type, symbol, price, shares, date, entry_date) ==
    LET holding_time == IF entry_date # NoDate
                        THEN calculate_holding_time(date, entry_date) ELSE 0
        trade == [action |-> action, position_type |-> position_type,
                  symbol |-> symbol, price |-> price, shares |-> shares,
                  date |-> date, balance_after_trade |-> self.initial_capital,
                  holding_time |-> holding_time]
    IN [self EXCEPT !.trade_history = Append(@, trade)]

\* variant: insufficient capital raises ValueError
open_position_raises(self, position_type, symbol, price, date, io) ==
    LET shares == calculate_shares(self.initial_capital, price)
        cost == open_cost(shares, price)
        item == [symbol |-> symbol, type |-> position_type, entry_price |-> price,
                 shares |-> shares, entry_date |-> date, max_swing_high |-> price,
                 trailing_stop_loss |->
                     calculate_dynamic_trailing_stop_loss(price, price, position_type)]
    IN IF self.initial_capital >= cost
       THEN LET debited == [self EXCEPT !.initial_capital = @ - cost,
                                        !.positions = DictSet(@, symbol, item)]
                recorded == record_trade(debited, "OPEN", position_type, symbol,
                                         price, shares, date, NoDate)
            IN update_positions_file(recorded, io)
       ELSE Raise(Log(self, "WARNING insufficient capital"), "ValueError")

\* variant: the file is written right after the debit, before the position
\* is set and the trade recorded
open_position_writes_first(self, position_type, symbol, price, date, io) ==
    LET shares == calculate_shares(self.initial_capital, price)
        cost == open_cost(shares, price)
        item == [symbol |-> symbol, type |-> position_type, entry_price |-> price,
                 shares |-> shares, entry_date |-> date, max_swing_high |-> price,
                 trailing_stop_loss |->
                     calculate_dynamic_trailing_stop_loss(price, price, position_type)]
    IN IF self.initial_capital >= cost
       THEN LET debited == [self EXCEPT !.initial_capital = @ - cost]
                written == update_positions_file(debited, io)
            IN IF written.exc # "none" THEN written
               ELSE record_trade([written EXCEPT !.positions = DictSet(@, symbol, item)],
                                 "OPEN", position_type, symbol, price, shares, date,
                                 NoDate)
       ELSE Log(self, "WARNING insufficient capital")

\* calculate_shares divides by price * 0.05: a price of 0 raises
\* ZeroDivisionError before anything is changed
open_position(self, position_type, symbol, price, date, io) ==
    LET shares == calculate_shares(self.initial_capital, price)
        cost == open_cost(shares, price)
        item == [symbol |-> symbol, type |-> position_type, entry_price |-> price,
                 shares |-> shares, entry_date |-> date, max_swing_high |-> price,
                 trailing_stop_loss |->
                     calculate_dynamic_trailing_stop_loss(price, price, position_type)]
    IN IF price = 0
       THEN Raise(self, "ZeroDivisionError")
       ELSE IF self.initial_capital >= cost
       THEN LET debited == [self EXCEPT !.initial_capital = @ - cost,
                                        !.positions = DictSet(@, symbol, item)]
                recorded == record_trade(debited, "OPEN", position_type, symbol,
                                         price, shares, date, NoDate)
            IN update_positions_file(recorded, io)
       ELSE Log(self, "WARNING insufficient capital")

\* variant: closing a symbol without a position raises KeyError
close_position_raises(self, symbol, price, date, io) ==
    IF HasPosition(self.positions, symbol)
    THEN LET position == PositionOf(self.positions, symbol)
             credited == [self EXCEPT !.positions = DictPop(@, symbol),
                                      !.initial_capital =
                                          @ + net_profit_loss(position, price)]
             recorded == record_trade(credited, "CLOSE", position.type, symbol, price,
                                      position.shares, date, position.entry_date)
         IN update_positions_file(recorded, io)
    ELSE Raise(self, "KeyError")

close_position(self, symbol, price, date, io) ==
    IF HasPosition(self.positions, symbol)
    THEN LET position == PositionOf(self.positions, symbol)
             credited == [self EXCEPT !.positions = DictPop(@, symbol),
                                      !.initial_capital =
                                          @ + net_profit_loss(position, price)]
             recorded == record_trade(credited, "CLOSE", position.type, symbol, price,
                                      position.shares, date, position.entry_date)
         IN update_positions_file(recorded, io)
    ELSE Log(self, "WARNING no open position")

\* variant: the signal is not validated, whatever is not a BUY sells
execute_trade_unvalidated(self, signal, symbol, price, date, io) ==
    LET want == IF signal = "BUY" THEN "long" ELSE "short"
        other == IF signal = "BUY" THEN "short" ELSE "long"
        closed == IF HasPosition(self.positions, symbol)
                     /\ PositionOf(self.positions, symbol).type = other
                  THEN close_position(self, symbol, price, date, io[1])
                  ELSE self
    IN IF closed.exc # "none" THEN closed
       ELSE open_position(closed, want, symbol, price, date, io[2])

\* variant: a signal opens without closing the opposite position first
execute_trade_no_close(self, signal, symbol, price, date, io) ==
    IF signal \notin {"BUY", "SELL"}
    THEN Raise(Log(self, "ERROR invalid signal"), "ValueError")
    ELSE LET want == IF signal = "BUY" THEN "long" ELSE "short"
         IN open_position(self, want, symbol, price, date, io[2])

\* io = <<outcome of the close's write, outcome of the open's write>>
execute_trade(self, signal, symbol, price, date, io) ==
    IF signal \notin {"BUY", "SELL"}
    THEN Raise(Log(self, "ERROR invalid signal"), "ValueError")
    ELSE LET want == IF signal = "BUY" THEN "long" ELSE "short"
             other == IF signal = "BUY" THEN "short" ELSE "long"
             closed == IF HasPosition(self.positions, symbol)
                          /\ PositionOf(self.positions, symbol).type = other
                       THEN close_position(self, symbol, price, date, io[1])
                       ELSE self
         IN IF closed.exc # "none" THEN closed
            ELSE open_position(closed, want, symbol, price, date, io[2])

\* variant: the extreme price is never moved
check_trailing_stop_loss_no_ratchet(self, symbol, current_price, date, io) ==
    IF HasPosition(self.positions, symbol)
    THEN LET position == PositionOf(self.positions, symbol)
             updated_trailing_stop_loss ==
                 calculate_dynamic_trailing_stop_loss(current_price,
                     position.entry_price, position.type)
             num == updated_trailing_stop_loss[1]
             den == updated_trailing_stop_loss[2]
             moved == FALSE
             extreme == IF moved THEN current_price ELSE position.max_swing_high
             ratcheted == [self EXCEPT !.positions =
                 DictSet(@, symbol, [position EXCEPT !.max_swing_high = extreme])]
             triggered == IF position.type = "long"
                          THEN current_price * 100 * den <= extreme * (100 * den - num)
                          ELSE current_price * 100 * den >= extreme * (100 * den + num)
         IN IF triggered
            THEN close_position(ratcheted, symbol, current_price, date, io)
            ELSE ratcheted
    ELSE Log(self, "WARNING no open position")

\* variant: the stop triggers only strictly beyond the stop level
check_trailing_stop_loss_strict(self, symbol, current_price, date, io) ==
    IF HasPosition(self.positions, symbol)
    THEN LET position == PositionOf(self.positions, symbol)
             updated_trailing_stop_loss ==
                 calculate_dynamic_trailing_stop_loss(current_price,
                     position.entry_price, position.type)
             num == updated_trailing_stop_loss[1]
             den == updated_trailing_stop_loss[2]
             moved == IF position.type = "long"
                      THEN current_price > position.max_swing_high
                      ELSE current_price < position.max_swing_high
             extreme == IF moved THEN current_price ELSE position.max_swing_high
             ratcheted == [self EXCEPT !.positions =
                 DictSet(@, symbol, [position EXCEPT !.max_swing_high = extreme])]
             triggered == IF position.type = "long"
                          THEN current_price * 100 * den < extreme * (100 * den - num)
                          ELSE current_price * 100 * den > extreme * (100 * den + num)
         IN IF triggered
            THEN close_position(ratcheted, symbol, current_price, date, io)
            ELSE ratcheted
    ELSE Log(self, "WARNING no open position")

check_trailing_stop_loss(self, symbol, current_price, date, io) ==
    IF HasPosition(self.positions, symbol)
    THEN LET position == PositionOf(self.positions, symbol)
             updated_trailing_stop_loss ==
                 calculate_dynamic_trailing_stop_loss(current_price,
                     position.entry_price, position.type)
             num == updated_trailing_stop_loss[1]
             den == updated_trailing_stop_loss[2]
             moved == IF position.type = "long"
                      THEN current_price > position.max_swing_high
                      ELSE current_price < position.max_swing_high
             extreme == IF moved THEN current_price ELSE position.max_swing_high
             ratcheted == [self EXCEPT !.positions =
                 DictSet(@, symbol, [position EXCEPT !.max_swing_high = extreme])]
             \* current_price <= max_swing_high * (1 - stop / 100), resp. >= ... (1 + ...)
             triggered == IF position.type = "long"
                          THEN current_price * 100 * den <= extreme * (100 * den - num)
                          ELSE current_price * 100 * den >= extreme * (100 * den + num)
         IN IF triggered
            THEN close_position(ratcheted, symbol, current_price, date, io)
            ELSE ratcheted
    ELSE Log(self, "WARNING no open position")

\* variant: a row without a trade signal runs the trailing-stop check
execute_trade_cycle_checks_stop(self, signal, symbol, close_price, trade_date, io) ==
    IF signal \in {"BUY", "SELL"}
    THEN LET done == execute_trade(self, signal, symbol, close_price, trade_date, io)
         IN IF done.exc # "none"
            THEN Raise(Log(done, "ERROR failed to execute"), "none")
            ELSE done
    ELSE check_trailing_stop_loss(self, symbol, close_price, trade_date, io[1])

\* body of the row loop of TradeExecutionManager.execute_trade_cycle
execute_trade_cycle(self, signal, symbol, close_price, trade_date, io) ==
    IF signal \in {"BUY", "SELL"}
    THEN LET done == execute_trade(self, signal, symbol, close_price, trade_date, io)
         IN IF done.exc # "none"
            THEN Raise(Log(done, "ERROR failed to execute"), "none")
            ELSE done
    ELSE self

-----------------------------------------------------------------------------
(* majority_voting_strategy *)

Votes == {"BUY", "SELL", "HOLD"}
StrategyNames == {"Bollinger_RSI_Volume", "MACD_Stochastic_ADX", "EMA_ATR_OBV",
                  "SAR_VWAP_RSI", "Fibonacci_Ichimoku_CCI"}
Decisions == [StrategyNames -> Votes]

vote_count(decision, outcome) ==
    Cardinality({n \in DOMAIN decision : decision[n] = outcome})
total_votes(decision) ==
    Cardinality({n \in DOMAIN decision : decision[n] \in Votes})

\* variant: the share must exceed 60 percent
HasMajorityStrict(decision, outcome) ==
    total_votes(decision) > 0
    /\ 10 * vote_count(decision, outcome) > 6 * total_votes(decision)

\* count / total_votes >= 0.6, tried for BUY, SELL, HOLD in that order
HasMajority(decision, outcome) ==
    total_votes(decision) > 0
    /\ 10 * vote_count(decision, outcome) >= 6 * total_votes(decision)

majority_voting_strategy(decision) ==
    IF HasMajority(decision, "BUY") THEN "BUY"
    ELSE IF HasMajority(decision, "SELL") THEN "SELL"
    ELSE IF HasMajority(decision, "HOLD") THEN "HOLD"
    ELSE "NONE"

\* the values the Majority_Vote_Strategy column of a row can hold
RowSignals == {majority_voting_strategy(d) : d \in Decisions}

-----------------------------------------------------------------------------
(* The simulator as a state machine: one action per public call *)

Self == [initial_capital |-> initial_capital, positions |-> positions,
         trade_history |-> trade_history, positions_file |-> positions_file,
         exc |-> "none", log |-> {}]

Commit(result, op, symbol, price, arg) ==
  \E new \in {result} :
    /\ initial_capital' = new.initial_capital
    /\ positions' = new.positions
    /\ trade_history' = new.trade_history
    /\ positions_file' = new.positions_file
    /\ last' = [op |-> op, symbol |-> symbol, price |-> price, arg |-> arg,
                exc |-> new.exc, log |-> new.log]
    /\ UNCHANGED <<voteVars, stopVars, callVars>>

CanCall == Len(trade_history) < MaxTrades

ExecuteTrade ==
    /\ CanCall
    /\ \E signal \in TradeSignals \cup InvalidSignals, symbol \in Symbols :
          \E price \in PricesOf(symbol), date \in StrDates, io \in WriteOutcomePairs :
          Commit(execute_trade(Self, signal, symbol, price, date, io),
                 "execute_trade", symbol, price, signal)

OpenPosition ==
    /\ CanCall
    /\ \E position_type \in PositionTypes, symbol \in Symbols : \E price \in PricesOf(symbol),
          date \in StrDates, io \in WriteOutcomes :
          Commit(open_position(Self, position_type, symbol, price, date, io),
                 "open_position", symbol, price, position_type)

ClosePosition ==
    /\ CanCall
    /\ \E symbol \in Symbols : \E price \in PricesOf(symbol), date \in StrDates,
          io \in WriteOutcomes :
          Commit(close_position(Self, symbol, price, date, io),
                 "close_position", symbol, price, "-")

CheckTrailingStopLoss ==
    /\ CanCall
    /\ \E symbol \in Symbols : \E price \in PricesOf(symbol), date \in StrDates,
          io \in WriteOutcomes :
          Commit(check_trailing_stop_loss(Self, symbol, price, date, io),
                 "check_trailing_stop_loss", symbol, price, "-")

ExecuteTradeCycleRow ==
    /\ CanCall
    /\ \E signal \in RowSignals, symbol \in Symbols : \E price \in PricesOf(symbol),
          date \in TimestampDates, io \in WriteOutcomePairs :
          Commit(execute_trade_cycle(Self, signal, symbol, price, date, io),
                 "execute_trade_cycle", symbol, price, signal)

NoCall == [op |-> "__init__", symbol |-> "-", price |-> 0, arg |-> "-",
           exc |-> "none", log |-> {}]

Pending == "pending"
\* no stop percentage computed yet (a computed one is never negative)
PendingStop == <<-1, 1>>

IdleVote ==
    /\ decision_dict = [n \in StrategyNames |-> "HOLD"]
    /\ majority_vote = Pending
IdleStop ==
    /\ stop_args = [current_price |-> 1, entry_price |-> 1, position_type |-> "long"]
    /\ stop_loss = PendingStop
IdleCall ==
    /\ call_args = [op |-> "none"]
    /\ call_state = [pc |-> "idle"]
IdleSim ==
    /\ initial_capital = DefaultInitialCapital
    /\ positions = {}
    /\ trade_history = <<>>
    /\ positions_file = [valid |-> TRUE, content |-> {}]
    /\ last = NoCall

\* TradeSimulator.__init__ in BACKTEST mode
Init ==
    /\ initial_capital \in InitialCapitals
    /\ positions = {}
    /\ trade_history = <<>>
    /\ positions_file = [valid |-> TRUE, content |-> {}]
    /\ last = NoCall
    /\ IdleVote
    /\ IdleStop
    /\ IdleCall

Next ==
    \/ ExecuteTrade
    \/ OpenPosition
    \/ ClosePosition
    \/ CheckTrailingStopLoss
    \/ ExecuteTradeCycleRow

Spec == Init /\ [][Next]_vars

-----------------------------------------------------------------------------
(* majority_voting_strategy applied to every decision dict of five votes *)

InitVote ==
    /\ decision_dict \in Decisions
    /\ majority_vote = Pending
    /\ IdleSim
    /\ IdleStop
    /\ IdleCall

Vote ==
    /\ majority_vote = Pending
    /\ majority_vote' = majority_voting_strategy(decision_dict)
    /\ UNCHANGED <<decision_dict, simVars, stopVars, callVars>>

NextVote == Vote

SpecVote == InitVote /\ [][NextVote]_vars

-----------------------------------------------------------------------------
(* calculate_dynamic_trailing_stop_loss applied to bounded prices *)

StopEntryPrices == {20, 100}

InitStop ==
    /\ stop_args \in [current_price : 1..MaxStopPrice,
                       entry_price : StopEntryPrices,
                       position_type : PositionTypes]
    /\ stop_loss = PendingStop
    /\ IdleSim
    /\ IdleVote
    /\ IdleCall

ComputeStop ==
    /\ stop_loss = PendingStop
    /\ stop_loss' = calculate_dynamic_trailing_stop_loss(
                        stop_args.current_price, stop_args.entry_price,
                        stop_args.position_type)
    /\ UNCHANGED <<stop_args, simVars, voteVars, callVars>>

NextStop == ComputeStop

SpecStop == InitStop /\ [][NextStop]_vars

-----------------------------------------------------------------------------
(* calculate_shares and the cost of an open, applied to bounded inputs *)

\* capitals and prices on which the double-precision quotient
\* (0.01 * capital) / (price * 0.05) truncates to the exact floor(capital / (5 * price))
ShareCapitals == {0, 250, 499, 500, 999, 1000, 7980, 10000}
SharePrices == {8, 20, 50, 99, 100, 120, 250}

InitShares ==
    /\ call_args \in [op : {"calculate_shares"}, capital : ShareCapitals,
                       price : SharePrices]
    /\ call_state = [pc |-> "call"]
    /\ IdleSim
    /\ IdleVote
    /\ IdleStop

\* open_position lines 141-142: size the trade, then price it
ComputeShares ==
    /\ call_state.pc = "call"
    /\ LET shares == calculate_shares(call_args.capital, call_args.price)
       IN call_state' = [pc |-> "done", shares |-> shares,
                         cost |-> open_cost(shares, call_args.price)]
    /\ UNCHANGED <<call_args, simVars, voteVars, stopVars>>

NextShares == ComputeShares

SpecShares == InitShares /\ [][NextShares]_vars

-----------------------------------------------------------------------------
(* execute_technical_strategy and apply_strategies on snapshots that may    *)
(* lack an indicator                                                         *)

\* top-level keys of a symbol's indicators dict
IndicatorNames == {"bollinger", "rsi", "volume", "macd", "stochastic", "adx",
                   "ema", "atr", "obv", "sar", "vwap", "fibonacci", "ichimoku", "cci"}

\* the keys each strategy reads with indicators[...]
RequiredIndicators(name) ==
    CASE name = "Bollinger_RSI_Volume" -> {"bollinger", "rsi", "volume"}
      [] name = "MACD_Stochastic_ADX" -> {"macd", "stochastic", "adx"}
      [] name = "EMA_ATR_OBV" -> {"ema", "atr", "obv"}
      [] name = "SAR_VWAP_RSI" -> {"sar", "vwap", "rsi"}
      [] name = "Fibonacci_Ichimoku_CCI" -> {"fibonacci", "ichimoku", "cci"}

\* order of the entries of the decision dict
StrategyOrder == <<"Bollinger_RSI_Volume", "MACD_Stochastic_ADX", "EMA_ATR_OBV",
                   "SAR_VWAP_RSI", "Fibonacci_Ichimoku_CCI">>
\* order of the symbols of all_indicators_data, and of the rows
SymbolOrder == <<"AAPL", "MSFT">>

\* a snapshot: the one key it lacks ("-" when complete) and, per strategy,
\* the vote its conditions give on the indicator values
MissingSamples == {"-", "bollinger", "rsi", "cci"}
VoteSamples == {d \in Decisions :
                   /\ d["MACD_Stochastic_ADX"] = d["Bollinger_RSI_Volume"]
                   /\ d["EMA_ATR_OBV"] = d["Bollinger_RSI_Volume"]
                   /\ d["Fibonacci_Ichimoku_CCI"] = d["SAR_VWAP_RSI"]}
Snapshots == [missing : MissingSamples, votes : VoteSamples]

CanEvaluate(name, indicators) == indicators.missing \notin RequiredIndicators(name)

\* one strategy on one snapshot: its vote, or the KeyError of indicators[key]
strategy(name, indicators) ==
    IF CanEvaluate(name, indicators)
    THEN [exc |-> "none", vote |-> indicators.votes[name]]
    ELSE [exc |-> "KeyError", vote |-> "-"]

NoDecision == [n \in StrategyNames \cup {"Majority_Vote_Strategy"} |-> "-"]

\* the loop body of execute_technical_strategy for one symbol: the dict
\* display evaluates the five strategies in order, an exception leaves it
symbol_decision(indicators) ==
    IF \E n \in StrategyNames : strategy(n, indicators).exc # "none"
    THEN [exc |-> "KeyError", decision |-> NoDecision]
    ELSE LET decision == [n \in StrategyNames |-> strategy(n, indicators).vote]
         IN [exc |-> "none",
             decision |-> [n \in StrategyNames \cup {"Majority_Vote_Strategy"} |->
                             IF n \in StrategyNames THEN decision[n]
                             ELSE majority_voting_strategy(decision)]]

\* execute_technical_strategy: the decisions of all symbols, or the first
\* exception, which discards strategy_decision
execute_technical_strategy(all_indicators_data) ==
    IF \E i \in DOMAIN SymbolOrder :
          symbol_decision(all_indicators_data[SymbolOrder[i]]).exc # "none"
    THEN [pc |-> "done", exc |-> "KeyError",
          result |-> [sym \in Symbols |-> NoDecision]]
    ELSE [pc |-> "done", exc |-> "none",
          result |-> [sym \in Symbols |->
                         symbol_decision(all_indicators_data[sym]).decision]]

\* StrategyManager.apply_strategies with the five strategies: one column per
\* strategy over the rows; a strategy that raises on any row gets None in
\* every row; no consensus is computed here
apply_strategies(data) ==
    [pc |-> "done", exc |-> "none",
     result |-> [sym \in Symbols |->
        [n \in StrategyNames \cup {"Majority_Vote_Strategy"} |->
            IF n \notin StrategyNames THEN "-"
            ELSE IF \E row \in Symbols : strategy(n, data[row]).exc # "none"
            THEN "None"
            ELSE strategy(n, data[sym]).vote]]]

InitStrategies ==
    /\ call_args \in [op : {"execute_technical_strategy", "apply_strategies"},
                       data : [Symbols -> Snapshots]]
    /\ call_state = [pc |-> "call"]
    /\ IdleSim
    /\ IdleVote
    /\ IdleStop

ExecuteTechnicalStrategy ==
    /\ call_state.pc = "call"
    /\ call_args.op = "execute_technical_strategy"
    /\ call_state' = execute_technical_strategy(call_args.data)
    /\ UNCHANGED <<call_args, simVars, voteVars, stopVars>>

ApplyStrategies ==
    /\ call_state.pc = "call"
    /\ call_args.op = "apply_strategies"
    /\ call_state' = apply_strategies(call_args.data)
    /\ UNCHANGED <<call_args, simVars, voteVars, stopVars>>

NextStrategies == ExecuteTechnicalStrategy \/ ApplyStrategies

SpecStrategies == InitStrategies /\ [][NextStrategies]_vars

-----------------------------------------------------------------------------
(* update_positions_file step by step, with a crash of the process          *)

\* positions of one share opened at the prices of the model
PositionSamples ==
    {[symbol |-> sym, type |-> "long", entry_price |-> price, shares |-> 1,
      entry_date |-> [kind |-> "str", t |-> 1], max_swing_high |-> price,
      trailing_stop_loss |-> calculate_dynamic_trailing_stop_loss(price, price, "long")]
        : sym \in Symbols, price \in Prices}
\* the dicts of them: at most one position per symbol, at its own prices
PositionDicts ==
    {pos \in SUBSET PositionSamples :
        /\ \A p \in pos : p.entry_price \in PricesOf(p.symbol)
        /\ \A p, q \in pos : p.symbol = q.symbol => p = q}

\* the file holds a complete earlier write; self.positions is to be written
InitCrash ==
    /\ call_args \in [op : {"update_positions_file"}, old : PositionDicts,
                       positions : PositionDicts]
    /\ call_state = [pc |-> "call",
                     file |-> [valid |-> TRUE, content |-> json_dump(call_args.old)]]
    /\ IdleSim
    /\ IdleVote
    /\ IdleStop

\* open(self.positions_file_path, 'w') truncates the file in place
OpenForWrite ==
    /\ call_state.pc = "call"
    /\ call_state' = [pc |-> "opened", file |-> [valid |-> FALSE, content |-> {}]]
    /\ UNCHANGED <<call_args, simVars, voteVars, stopVars>>

\* json.dump writes the text piece by piece; a flushed piece is in the file
WriteMember ==
    /\ call_state.pc = "opened"
    /\ \E m \in json_dump(call_args.positions) \ call_state.file.content :
          call_state' = [call_state EXCEPT !.file.content = @ \cup {m}]
    /\ UNCHANGED <<call_args, simVars, voteVars, stopVars>>

\* leaving the with block flushes the rest and closes the file
CloseFile ==
    /\ call_state.pc = "opened"
    /\ call_state' = [pc |-> "closed",
                      file |-> [valid |-> TRUE,
                                content |-> json_dump(call_args.positions)]]
    /\ UNCHANGED <<call_args, simVars, voteVars, stopVars>>

\* the process dies during the call: the file stays as it is
Crash ==
    /\ call_state.pc \in {"call", "opened"}
    /\ call_state' = [call_state EXCEPT !.pc = "crashed"]
    /\ UNCHANGED <<call_args, simVars, voteVars, stopVars>>

NextCrash == OpenForWrite \/ WriteMember \/ CloseFile \/ Crash

SpecCrash == InitCrash /\ [][NextCrash]_vars

-----------------------------------------------------------------------------
(* execute_trade and open_position called with any price, the sign of which *)
(* the source never tests                                                    *)

AnyPrices == {-100, 0, 100}

ExecuteTradeAnyPrice ==
    /\ CanCall
    /\ \E signal \in TradeSignals, symbol \in Symbols, price \in AnyPrices,
          date \in StrDates :
          Commit(execute_trade(Self, signal, symbol, price, date, <<"ok", "ok">>),
                 "execute_trade", symbol, price, signal)

OpenPositionAnyPrice ==
    /\ CanCall
    /\ \E position_type \in PositionTypes, symbol \in Symbols, price \in AnyPrices,
          date \in StrDates :
          Commit(open_position(Self, position_type, symbol, price, date, "ok"),
                 "open_position", symbol, price, position_type)

NextAnyPrice == ExecuteTradeAnyPrice \/ OpenPositionAnyPrice

SpecAnyPrice == Init /\ [][NextAnyPrice]_vars

-----------------------------------------------------------------------------
(* TradeSimulator.__init__ statement by statement: the attributes are        *)
(* assigned in the order of the source, and reading one that is not yet      *)
(* assigned raises AttributeError                                            *)

TradeModes == {"LIVE", "BACKTEST"}

\* the positions file before the construction: absent, or present with the
\* text of an earlier write or with text that is not JSON
StoreStates ==
    {[exists |-> FALSE, file |-> BrokenFile]}
        \cup {[exists |-> TRUE, file |-> [valid |-> TRUE, content |-> json_dump(pos)]]
                  : pos \in PositionDicts}
        \cup {[exists |-> TRUE, file |-> BrokenFile]}

\* load_positions as a method: it reads self.positions_file_path, tests
\* os.path.exists and parses the file
load_positions_of(attrs, store) ==
    IF "positions_file_path" \notin attrs
    THEN [positions |-> {}, exc |-> "AttributeError"]
    ELSE IF store.exists
         THEN load_positions(store.file)
         ELSE [positions |-> {}, exc |-> "none"]

InitConstruct ==
    /\ call_args \in [op : {"__init__"}, mode : TradeModes, store : StoreStates,
                       initial_capital : InitialCapitals]
    /\ call_state = [pc |-> "call", attrs |-> {}, positions |-> {},
                     trade_history |-> <<>>, exc |-> "none"]
    /\ IdleSim
    /\ IdleVote
    /\ IdleStop

\* self.mode, self.initial_capital, self.transaction_cost
AssignSettings ==
    /\ call_state.pc = "call"
    /\ call_state' = [call_state EXCEPT
                          !.pc = "positions",
                          !.attrs = @ \cup {"mode", "initial_capital",
                                            "transaction_cost"}]
    /\ UNCHANGED <<call_args, simVars, voteVars, stopVars>>

\* self.positions = self.load_positions() if self.mode == 'LIVE' else {}
AssignPositions ==
    /\ call_state.pc = "positions"
    /\ LET loaded == IF call_args.mode = "LIVE"
                     THEN load_positions_of(call_state.attrs, call_args.store)
                     ELSE [positions |-> {}, exc |-> "none"]
       IN call_state' =
              IF loaded.exc # "none"
              THEN [call_state EXCEPT !.pc = "raised", !.exc = loaded.exc]
              ELSE [call_state EXCEPT !.pc = "rest",
                                      !.attrs = @ \cup {"positions"},
                                      !.positions = loaded.positions]
    /\ UNCHANGED <<call_args, simVars, voteVars, stopVars>>

\* self.trade_history = [], self.positions_file_path = ...
AssignRest ==
    /\ call_state.pc = "rest"
    /\ call_state' = [call_state EXCEPT
                          !.pc = "done",
                          !.attrs = @ \cup {"trade_history", "positions_file_path"}]
    /\ UNCHANGED <<call_args, simVars, voteVars, stopVars>>

NextConstruct == AssignSettings \/ AssignPositions \/ AssignRest

SpecConstruct == InitConstruct /\ [][NextConstruct]_vars

-----------------------------------------------------------------------------
(* Two rules of TradingStrategies computed from their indicators: the        *)
(* Bollinger+RSI+Volume rule and the Fibonacci+Ichimoku+CCI rule             *)

MaxLevels == 3
MaxWindow == 2

\* Series.iloc[-1] and Series.mean() (as the sum, to compare without dividing)
Latest(series) == series[Len(series)]
RECURSIVE SeriesSum(_)
SeriesSum(series) ==
    IF series = <<>> THEN 0 ELSE series[1] + SeriesSum(Tail(series))

\* a series whose latest value is x, after an earlier value that is far from
\* every threshold of the rules
EarlierValue == 1000
SeriesEnding(values) == {<<EarlierValue, x>> : x \in values}
SeqsUpTo(values, n) == UNION {[1..k -> values] : k \in 0..n}

BandValues == {95, 100, 105}
RsiValues == {25, 30, 50, 70, 75}
VolumeValues == {100, 300}
SnapshotPrices == {90, 100, 110}
LevelValues == {90, 100, 110}
FibPrices == {95, 100, 105}
CciValues == {-150, -100, -50}

\* indicators of the Bollinger rule; price is the price of the snapshot
\* (indicators['fibonacci']['price']), which the rule does not read
BollingerIndicators ==
    [price : SnapshotPrices,
     lowerband : SeriesEnding({95, 100}), middleband : SeriesEnding(BandValues),
     upperband : SeriesEnding({100, 105}), rsi : SeriesEnding(RsiValues),
     volume : SeqsUpTo(VolumeValues, MaxWindow) \ {<<>>}]

FibonacciIndicators ==
    [price : FibPrices, levels : SeqsUpTo(LevelValues, MaxLevels),
     price_above_cloud : BOOLEAN, cci : SeriesEnding(CciValues)]

\* cp = mid_band: the current price of the rule is the middle band
bollinger_rsi_volume_strategy(indicators) ==
    LET cp == indicators.middleband
        latest_cp == Latest(cp)
        latest_crsi == Latest(indicators.rsi)
        latest_cvol == Latest(indicators.volume)
        latest_lower_band == Latest(indicators.lowerband)
        latest_upper_band == Latest(indicators.upperband)
    IN IF /\ latest_cp <= latest_lower_band
          /\ latest_crsi < 30
          /\ latest_cvol * Len(indicators.volume) > SeriesSum(indicators.volume)
       THEN "BUY"
       ELSE IF latest_cp >= latest_upper_band /\ latest_crsi > 70
       THEN "SELL"
       ELSE "HOLD"

\* variant: a BUY at any level is looked for before a SELL at any level
fibonacci_ichimoku_cci_strategy_buy_first(indicators) ==
    LET cp == indicators.price
        levels == indicators.levels
    IN IF \E i \in DOMAIN levels :
             cp >= levels[i] /\ indicators.price_above_cloud
                             /\ Latest(indicators.cci) > -100
       THEN "BUY"
       ELSE IF \E i \in DOMAIN levels : cp < levels[i]
       THEN "SELL"
       ELSE "HOLD"

\* the for loop over levels, from the levels not yet visited
RECURSIVE for_level_in(_, _, _, _)
for_level_in(levels, cp, ichimoku_price_above_cloud, cci_val) ==
    IF levels = <<>>
    THEN "HOLD"
    ELSE LET level == Head(levels)
         IN IF cp >= level /\ ichimoku_price_above_cloud /\ cci_val > -100
            THEN "BUY"
            ELSE IF cp < level
            THEN "SELL"
            ELSE for_level_in(Tail(levels), cp, ichimoku_price_above_cloud, cci_val)

fibonacci_ichimoku_cci_strategy(indicators) ==
    for_level_in(indicators.levels, indicators.price,
                 indicators.price_above_cloud, Latest(indicators.cci))

InitRules ==
    /\ call_args \in
          [op : {"bollinger_rsi_volume_strategy"}, indicators : BollingerIndicators]
            \cup [op : {"fibonacci_ichimoku_cci_strategy"},
                  indicators : FibonacciIndicators]
    /\ call_state = [pc |-> "call", vote |-> "-"]
    /\ IdleSim
    /\ IdleVote
    /\ IdleStop

BollingerRsiVolume ==
    /\ call_state.pc = "call"
    /\ call_args.op = "bollinger_rsi_volume_strategy"
    /\ call_state' = [pc |-> "done",
                      vote |-> bollinger_rsi_volume_strategy(call_args.indicators)]
    /\ UNCHANGED <<call_args, simVars, voteVars, stopVars>>

FibonacciIchimokuCci ==
    /\ call_state.pc = "call"
    /\ call_args.op = "fibonacci_ichimoku_cci_strategy"
    /\ call_state' = [pc |-> "done",
                      vote |-> fibonacci_ichimoku_cci_strategy(call_args.indicators)]
    /\ UNCHANGED <<call_args, simVars, voteVars, stopVars>>

NextRules == BollingerRsiVolume \/ FibonacciIchimokuCci

SpecRules == InitRules /\ [][NextRules]_vars

-----------------------------------------------------------------------------
(* execute_trade called by two threads on one TradeSimulator, for two       *)
(* symbols without a position: the statements of open_position interleave   *)

Threads == {1, 2}
\* thread 1 trades AAPL, thread 2 trades MSFT
SymbolOfThread(t) == IF t = 1 THEN "AAPL" ELSE "MSFT"
ThreadStart == [pc |-> "size", shares |-> 0, cost |-> 0, capital_read |-> 0]

InitThreads ==
    /\ initial_capital \in InitialCapitals
    /\ positions = {}
    /\ trade_history = <<>>
    /\ positions_file = [valid |-> TRUE, content |-> {}]
    /\ last = NoCall
    /\ \E s1 \in TradeSignals, s2 \in TradeSignals, p1 \in PricesOf("AAPL"),
          p2 \in PricesOf("MSFT") :
          call_args = [op |-> "execute_trade", capital |-> initial_capital,
                       signal |-> <<s1, s2>>, price |-> <<p1, p2>>]
    /\ call_state = [pc |-> "run", thread |-> [t \in Threads |-> ThreadStart]]
    /\ IdleVote
    /\ IdleStop

At(t, pc) == call_state.pc = "run" /\ call_state.thread[t].pc = pc
\* the thread's locals change and it moves to the next statement
Step(t, locals) ==
    call_state' = [call_state EXCEPT !.thread[t] = locals]
Goto(t, pc) == Step(t, [call_state.thread[t] EXCEPT !.pc = pc])

\* lines 141-142: shares and cost from the capital as read now
ThreadSize(t) ==
    /\ At(t, "size")
    /\ LET shares == calculate_shares(initial_capital, call_args.price[t])
       IN Step(t, [call_state.thread[t] EXCEPT
                     !.pc = "check", !.shares = shares,
                     !.cost = open_cost(shares, call_args.price[t])])
    /\ UNCHANGED <<call_args, simVars, voteVars, stopVars>>

\* line 144: if self.initial_capital >= cost
ThreadCheck(t) ==
    /\ At(t, "check")
    /\ IF initial_capital >= call_state.thread[t].cost
       THEN Goto(t, "load") ELSE Goto(t, "done")
    /\ UNCHANGED <<call_args, simVars, voteVars, stopVars>>

\* line 145, self.initial_capital -= cost: the attribute is read ...
ThreadLoad(t) ==
    /\ At(t, "load")
    /\ Step(t, [call_state.thread[t] EXCEPT !.pc = "store",
                                            !.capital_read = initial_capital])
    /\ UNCHANGED <<call_args, simVars, voteVars, stopVars>>

\* ... and the difference is stored
ThreadStore(t) ==
    /\ At(t, "store")
    /\ initial_capital' = call_state.thread[t].capital_read - call_state.thread[t].cost
    /\ Goto(t, "set")
    /\ UNCHANGED <<call_args, positions, trade_history, positions_file, last,
                   voteVars, stopVars>>

\* lines 146-153: self.positions[symbol] = {...}
ThreadSetPosition(t) ==
    /\ At(t, "set")
    /\ LET price == call_args.price[t]
           type == IF call_args.signal[t] = "BUY" THEN "long" ELSE "short"
       IN positions' = DictSet(positions, SymbolOfThread(t),
              [symbol |-> SymbolOfThread(t), type |-> type, entry_price |-> price,
               shares |-> call_state.thread[t].shares,
               entry_date |-> [kind |-> "str", t |-> 1], max_swing_high |-> price,
               trailing_stop_loss |->
                   calculate_dynamic_trailing_stop_loss(price, price, type)])
    /\ Goto(t, "record")
    /\ UNCHANGED <<call_args, initial_capital, trade_history, positions_file, last,
                   voteVars, stopVars>>

\* line 154: record_trade('OPEN', ...)
ThreadRecord(t) ==
    /\ At(t, "record")
    /\ trade_history' =
          record_trade(Self, "OPEN",
                       IF call_args.signal[t] = "BUY" THEN "long" ELSE "short",
                       SymbolOfThread(t), call_args.price[t],
                       call_state.thread[t].shares, [kind |-> "str", t |-> 1],
                       NoDate).trade_history
    /\ Goto(t, "write")
    /\ UNCHANGED <<call_args, initial_capital, positions, positions_file, last,
                   voteVars, stopVars>>

\* line 155: update_positions_file()
ThreadWrite(t) ==
    /\ At(t, "write")
    /\ positions_file' = update_positions_file(Self, "ok").positions_file
    /\ Goto(t, "done")
    /\ UNCHANGED <<call_args, initial_capital, positions, trade_history, last,
                   voteVars, stopVars>>

NextThreads ==
    \E t \in Threads :
        \/ ThreadSize(t)
        \/ ThreadCheck(t)
        \/ ThreadLoad(t)
        \/ ThreadStore(t)
        \/ ThreadSetPosition(t)
        \/ ThreadRecord(t)
        \/ ThreadWrite(t)

SpecThreads == InitThreads /\ [][NextThreads]_vars

-----------------------------------------------------------------------------
(* Properties of the simulator (specification Spec) *)

Opens(history) == {i \in 1..Len(history) : history[i].action = "OPEN"}
Closes(history) == {i \in 1..Len(history) : history[i].action = "CLOSE"}

\* C1: after any sequence of calls with positive prices, starting from a
\* non-negative capital, the available capital is never negative once a
\* trade has been committed.
C1_CapitalNeverNegative ==
    Len(trade_history) > 0 => initial_capital >= 0

\* C2: the ledger never holds two positions for one symbol: each symbol is
\* FLAT or has exactly one position, LONG or SHORT.
C2_AtMostOnePosition ==
    \A symbol \in Symbols :
        /\ Cardinality({p \in positions : p.symbol = symbol}) <= 1
        /\ \A p \in positions : p.symbol = symbol => p.type \in {"long", "short"}

\* a symbol that was opened twice in a row (same-direction re-entry) or
\* reversed, and still holds exactly one position
C2_Witness ==
    /\ Len(trade_history) >= 2
    /\ trade_history[1].action = "OPEN"
    /\ trade_history[2].action = "OPEN"
    /\ trade_history[1].symbol = trade_history[2].symbol
    /\ Cardinality({p \in positions : p.symbol = trade_history[1].symbol}) = 1

SameDirection(signal, symbol) ==
    /\ HasPosition(positions, symbol)
    /\ \/ signal = "BUY" /\ PositionOf(positions, symbol).type = "long"
       \/ signal = "SELL" /\ PositionOf(positions, symbol).type = "short"

\* C3: a BUY on a symbol that is LONG, and a SELL on a symbol that is SHORT,
\* is a no-op of execute_trade: position, capital and trade history are
\* unchanged.
C3_SameDirectionNoOp ==
    [][(last'.op = "execute_trade" /\ SameDirection(last'.arg, last'.symbol))
         => UNCHANGED <<positions, initial_capital, trade_history>>]_vars

\* the OPEN record of the position that the CLOSE record at index i closed:
\* the last OPEN of the same symbol before it
OpenOf(history, i) ==
    CHOOSE j \in Opens(history) :
        /\ j < i
        /\ history[j].symbol = history[i].symbol
        /\ \A k \in Opens(history) :
               (k < i /\ history[k].symbol = history[i].symbol) => k <= j

\* the capital before the trade recorded at index i (the capital the
\* simulator was constructed with, for the first trade)
CapitalBefore(history, i, constructed) ==
    IF i = 1 THEN constructed ELSE history[i - 1].balance_after_trade

\* C4: for every open and the close of the same position,
\* capital_after_close = capital_before_open - cost_at_open + net_at_close,
\* with cost_at_open = shares * entry_price + transaction_cost and
\* net_at_close = (price - entry_price) * shares - transaction_cost for LONG,
\* (entry_price - price) * shares - transaction_cost for SHORT; nothing
\* between (or after) the recorded trades changes the capital.
C4_CapitalConservation ==
    \E constructed \in InitialCapitals :
        /\ \A i \in Opens(trade_history) :
               trade_history[i].balance_after_trade =
                   CapitalBefore(trade_history, i, constructed)
                   - (trade_history[i].shares * trade_history[i].price + 20)
        /\ \A i \in Closes(trade_history) :
               LET o == trade_history[OpenOf(trade_history, i)]
                   c == trade_history[i]
                   gain == IF c.position_type = "long"
                           THEN (c.price - o.price) * o.shares
                           ELSE (o.price - c.price) * o.shares
               IN /\ c.shares = o.shares /\ c.position_type = o.position_type
                  /\ c.balance_after_trade =
                         CapitalBefore(trade_history, i, constructed) + gain - 20
        /\ initial_capital =
               IF trade_history = <<>> THEN constructed
               ELSE trade_history[Len(trade_history)].balance_after_trade

\* a position opened and then closed at another price by a later call
C4_Witness ==
    /\ Len(trade_history) = 2
    /\ trade_history[1].action = "OPEN"
    /\ trade_history[2].action = "CLOSE"
    /\ trade_history[1].symbol = trade_history[2].symbol
    /\ trade_history[1].price # trade_history[2].price
    /\ last.op \in {"close_position", "check_trailing_stop_loss"}

\* C5: open_position with cost > available capital leaves capital, positions
\* and trade history unchanged and raises/reports an insufficient-capital
\* error to its caller.
C5_InsufficientCapitalRaises ==
    [][(/\ last'.op = "open_position"
        /\ open_cost(calculate_shares(initial_capital, last'.price), last'.price)
               > initial_capital)
         => /\ UNCHANGED <<positions, initial_capital, trade_history>>
            /\ last'.exc # "none"]_vars

\* the row loop leaves the ledger alone on a HOLD row for a symbol that holds
\* a position
C7_Witness ==
    /\ last.op = "execute_trade_cycle"
    /\ last.arg = "HOLD"
    /\ HasPosition(positions, last.symbol)

\* C7: a row whose consensus signal is HOLD or NONE never changes state:
\* positions, capital and trade history are unchanged whatever the symbol
\* holds.
C7_HoldNoneNoChange ==
    [][(last'.op = "execute_trade_cycle" /\ last'.arg \in {"HOLD", "NONE"})
         => UNCHANGED <<positions, initial_capital, trade_history, positions_file>>]_vars

\* C8: while a symbol stays LONG its max_swing_high never decreases over
\* successive calls (trailing-stop checks and signals); while it stays SHORT
\* it never increases.
C8_ExtremeNeverMovesBack ==
    [][\A symbol \in Symbols :
         (/\ HasPosition(positions, symbol)
          /\ HasPosition(positions', symbol)
          /\ PositionOf(positions', symbol).type = PositionOf(positions, symbol).type)
         => IF PositionOf(positions, symbol).type = "long"
            THEN PositionOf(positions', symbol).max_swing_high
                     >= PositionOf(positions, symbol).max_swing_high
            ELSE PositionOf(positions', symbol).max_swing_high
                     <= PositionOf(positions, symbol).max_swing_high]_vars

-----------------------------------------------------------------------------
(* Properties of majority_voting_strategy (specification SpecVote) *)

VotesFor(outcome) ==
    Cardinality({n \in StrategyNames : decision_dict[n] = outcome})

-----------------------------------------------------------------------------
(* Properties of calculate_dynamic_trailing_stop_loss (specification SpecStop) *)

\* 100 * (favourable price move): the return percentage times the entry price
ReturnTimesEntry ==
    IF stop_args.position_type = "long"
    THEN 100 * (stop_args.current_price - stop_args.entry_price)
    ELSE 100 * (stop_args.entry_price - stop_args.current_price)

\* the move from an entry price of 100 that gives a return of r percent
MoveIs(r) ==
    /\ stop_args.entry_price = 100
    /\ stop_args.current_price =
           IF stop_args.position_type = "long" THEN 100 + r ELSE 100 - r

\* C9: the stop percentage follows the piecewise law on the return r:
\* r < 5 gives 0; 5 <= r < 10 gives 50; r >= 10 gives max(50 - (r - 10), 10);
\* r = 3, 7, 15, 45, 60 give 0, 50, 45, 15, 10.
C9_PiecewiseLaw ==
    stop_loss # PendingStop =>
        LET e == stop_args.entry_price
            re == ReturnTimesEntry
        IN /\ re < 5 * e => stop_loss = <<0, 1>>
           /\ (5 * e <= re /\ re < 10 * e) => stop_loss = <<50, 1>>
           /\ re >= 10 * e =>
                  stop_loss[1] * e = stop_loss[2] * Max(60 * e - re, 10 * e)
           /\ MoveIs(3) => stop_loss = <<0, 1>>
           /\ MoveIs(7) => stop_loss = <<50, 1>>
           /\ MoveIs(15) => stop_loss = <<45, 1>>
           /\ MoveIs(45) => stop_loss = <<15, 1>>
           /\ MoveIs(60) => stop_loss = <<10, 1>>

\* a return of 15 percent gave a stop of 45 percent
C9_Witness ==
    /\ MoveIs(15)
    /\ stop_loss = <<45, 1>>

\* C10: for every direction, positive entry price and current price, the
\* stop percentage is never below 10 and never above 50.
C10_StopBetween10And50 ==
    stop_loss # PendingStop =>
        /\ 10 * stop_loss[2] <= stop_loss[1]
        /\ stop_loss[1] <= 50 * stop_loss[2]

\* C10 as amended: the stop percentage is never above 50, and never below 10
\* except when the return is below 5 percent, where it is 0.
C10_StopZeroOrBetween10And50 ==
    stop_loss # PendingStop =>
        /\ stop_loss[1] <= 50 * stop_loss[2]
        /\ IF ReturnTimesEntry < 5 * stop_args.entry_price
           THEN stop_loss[1] = 0
           ELSE 10 * stop_loss[2] <= stop_loss[1]

\* a losing position (negative return) got a stop of 0 percent, and so did
\* not stay within 10..50
C10_Witness ==
    /\ stop_loss # PendingStop
    /\ ReturnTimesEntry < 0
    /\ stop_loss = <<0, 1>>

-----------------------------------------------------------------------------
(* Properties of the sizing (specification SpecShares) *)

-----------------------------------------------------------------------------
(* Reversal, open on a flat symbol, close without a position (Spec) *)

DirectionOf(signal) == IF signal = "BUY" THEN "long" ELSE "short"
\* gain of closing a held position at a price, before the transaction cost
GainAt(position, price) ==
    IF position.type = "long"
    THEN (price - position.entry_price) * position.shares
    ELSE (position.entry_price - price) * position.shares

\* the step is a completed execute_trade of a signal against the opposite
\* position of its symbol, the re-open being affordable after the close
IsReversal ==
    /\ last'.op = "execute_trade"
    /\ last'.arg \in TradeSignals
    /\ last'.exc = "none"
    /\ HasPosition(positions, last'.symbol)
    /\ PositionOf(positions, last'.symbol).type # DirectionOf(last'.arg)
    /\ LET credited == initial_capital
                         + GainAt(PositionOf(positions, last'.symbol), last'.price)
                         - TransactionCost
           n == calculate_shares(credited, last'.price)
       IN credited >= n * last'.price + TransactionCost

IsOpenOnFlat ==
    /\ last'.op \in {"execute_trade", "execute_trade_cycle"}
    /\ last'.arg \in TradeSignals
    /\ ~HasPosition(positions, last'.symbol)
    /\ initial_capital >= calculate_shares(initial_capital, last'.price) * last'.price
                              + TransactionCost
    /\ "ERROR write failed" \notin last'.log

\* the file parses and holds the in-memory positions
Persisted(file, pos) ==
    /\ load_positions(file).exc = "none"
    /\ load_positions(file).positions = pos

\* C13: a BUY (SELL) on a FLAT symbol with sufficient capital opens a LONG
\* (SHORT): capital is debited by exactly the cost, the new position has
\* entry price = extreme price = signal price, the sized shares and the stop
\* percentage of (direction, price, price), exactly one OPEN record is
\* appended, and the ledger is persisted.
C13_OpenOnFlat ==
    [][IsOpenOnFlat =>
        LET symbol == last'.symbol
            price == last'.price
            n == calculate_shares(initial_capital, price)
            k == Len(trade_history)
        IN /\ initial_capital' = initial_capital - (n * price + TransactionCost)
           /\ HasPosition(positions', symbol)
           /\ PositionOf(positions', symbol).type = DirectionOf(last'.arg)
           /\ PositionOf(positions', symbol).entry_price = price
           /\ PositionOf(positions', symbol).max_swing_high = price
           /\ PositionOf(positions', symbol).shares = n
           /\ PositionOf(positions', symbol).trailing_stop_loss
                 = calculate_dynamic_trailing_stop_loss(price, price,
                                                        DirectionOf(last'.arg))
           /\ Len(trade_history') = k + 1
           /\ SubSeq(trade_history', 1, k) = trade_history
           /\ trade_history'[k + 1].action = "OPEN"
           /\ trade_history'[k + 1].symbol = symbol
           /\ Persisted(positions_file', positions')
    ]_vars

C15_InvalidSignalRaises ==
    [][(last'.op = "execute_trade" /\ last'.arg \notin {"BUY", "SELL", "NONE"}) =>
        /\ last'.exc = "ValueError"
        /\ "ERROR invalid signal" \in last'.log
        /\ UNCHANGED <<positions, initial_capital, trade_history>>
    ]_vars

\* an unknown signal was executed while a position is held
C15_Witness ==
    /\ last.op = "execute_trade"
    /\ last.arg \in InvalidSignals
    /\ last.exc = "ValueError"
    /\ HasPosition(positions, last.symbol)

-----------------------------------------------------------------------------
(* Persistence of the positions (Spec) *)

\* C17: update_positions_file followed by load_positions yields a mapping
\* of symbols to positions equal by value to the in-memory positions, for
\* every reachable set of positions.
C17_PersistReloadRoundTrip ==
    LET written == update_positions_file(Self, "ok")
        loaded == load_positions(written.positions_file)
    IN /\ written.exc = "none"
       /\ loaded.exc = "none"
       /\ loaded.positions = positions

\* C18: the positions file is rewritten after every mutation of the ledger:
\* after each completed operation that changes a field of a position (an
\* open, a close, or an extreme-price update of check_trailing_stop_loss)
\* without a write failure, the content of the file equals the in-memory
\* positions.  Stated here for positions json.dump can serialize.
C18_StoreFollowsEveryMutation ==
    [][(/\ positions' # positions
        /\ last'.exc = "none"
        /\ last'.log = {}
        /\ JsonSerializable(positions'))
       => Persisted(positions_file', positions')
    ]_vars

-----------------------------------------------------------------------------
(* Properties of the write of the file (specification SpecCrash) *)

\* C19: writes of the positions file are atomic: if the process crashes at
\* any point during update_positions_file, the file afterwards holds either
\* the complete previous content or the complete new content, never an
\* empty, truncated or partially written file.
C19_WriteIsAtomic ==
    call_state.pc = "crashed" =>
        \/ call_state.file = [valid |-> TRUE, content |-> json_dump(call_args.old)]
        \/ call_state.file = [valid |-> TRUE, content |-> json_dump(call_args.positions)]

-----------------------------------------------------------------------------
(* Properties of concurrent calls (specification SpecThreads) *)

\* the simulator before the two calls
BeforeCalls ==
    [initial_capital |-> call_args.capital, positions |-> {}, trade_history |-> <<>>,
     positions_file |-> [valid |-> TRUE, content |-> {}], exc |-> "none", log |-> {}]

\* the call of thread t run alone on a simulator
SerialCall(self, t) ==
    execute_trade([self EXCEPT !.exc = "none", !.log = {}], call_args.signal[t],
                  SymbolOfThread(t), call_args.price[t], [kind |-> "str", t |-> 1],
                  <<"ok", "ok">>)

\* capital and positions after the two calls in the order first, second
SerialOutcome(first, second) ==
    LET final == SerialCall(SerialCall(BeforeCalls, first), second)
    IN <<final.initial_capital, final.positions>>

\* C20: capital mutations serialize across symbols: when execute_trade runs
\* concurrently for two different symbols on one TradeSimulator, every
\* interleaving ends with the capital and positions of one of the two
\* serial orders.
C20_ConcurrentOpensSerialize ==
    (\A t \in Threads : call_state.pc = "run" /\ call_state.thread[t].pc = "done") =>
        <<initial_capital, positions>> \in {SerialOutcome(1, 2), SerialOutcome(2, 1)}

-----------------------------------------------------------------------------
(* Properties of the strategy evaluation (specification SpecStrategies) *)

\* the five votes of a snapshot with HOLD for a rule that cannot evaluate
VotesWithHold(indicators) ==
    [n \in StrategyNames |->
        IF CanEvaluate(n, indicators) THEN indicators.votes[n] ELSE "HOLD"]

\* C16: when a rule cannot evaluate because an indicator is absent from a
\* symbol's snapshot, that rule's vote is HOLD, the consensus of the symbol
\* is still computed from the five votes, and the other symbols of the same
\* evaluation are still processed.
C16_MissingIndicatorVotesHold ==
    call_state.pc = "done" =>
        /\ call_state.exc = "none"
        /\ \A sym \in Symbols :
              LET expected == VotesWithHold(call_args.data[sym])
              IN /\ \A n \in StrategyNames : call_state.result[sym][n] = expected[n]
                 /\ call_args.op = "execute_technical_strategy" =>
                       call_state.result[sym]["Majority_Vote_Strategy"]
                           = majority_voting_strategy(expected)

-----------------------------------------------------------------------------
(* Atomicity, write failures and the audit log (Spec) *)

\* C21: open and close are atomic for the caller: whenever open_position or
\* close_position returns or raises, capital was debited exactly when the
\* position was recorded in the ledger, and a position was removed exactly
\* when its net result was credited, also when the call raises part-way.
C21_OpenCloseAtomic ==
    [][/\ last'.op = "open_position" =>
            LET n == calculate_shares(initial_capital, last'.price)
                cost == n * last'.price + TransactionCost
            IN \/ /\ initial_capital' = initial_capital - cost
                  /\ HasPosition(positions', last'.symbol)
                  /\ PositionOf(positions', last'.symbol).type = last'.arg
                  /\ PositionOf(positions', last'.symbol).entry_price = last'.price
                  /\ PositionOf(positions', last'.symbol).shares = n
                  /\ Len(trade_history') = Len(trade_history) + 1
               \/ UNCHANGED <<initial_capital, positions, trade_history>>
       /\ last'.op = "close_position" =>
            \/ /\ HasPosition(positions, last'.symbol)
               /\ ~HasPosition(positions', last'.symbol)
               /\ initial_capital' = initial_capital
                     + GainAt(PositionOf(positions, last'.symbol), last'.price)
                     - TransactionCost
               /\ Len(trade_history') = Len(trade_history) + 1
            \/ UNCHANGED <<initial_capital, positions, trade_history>>
    ]_vars

\* open_position raised on the write of the file: the debit, the position
\* and the record are all there
C21_Witness ==
    /\ last.op = "open_position"
    /\ last.exc = "IOError"
    /\ HasPosition(positions, last.symbol)
    /\ Len(trade_history) = 1
    /\ initial_capital = trade_history[1].balance_after_trade
    /\ initial_capital < DefaultInitialCapital

\* C22: when the write of the positions file fails during an open or a
\* close, the failure reaches the caller of execute_trade as an error and
\* the in-memory ledger stays authoritative: the position change, the
\* capital change and the appended trade record of that operation are
\* retained, not rolled back.
C22_WriteFailureSurfacedNotRolledBack ==
    [][(last'.op = "execute_trade" /\ "ERROR write failed" \in last'.log) =>
        LET symbol == last'.symbol
            price == last'.price
            k == Len(trade_history)
            record == trade_history'[Len(trade_history')]
        IN /\ last'.exc = "IOError"
           /\ Len(trade_history') > k
           /\ SubSeq(trade_history', 1, k) = trade_history
           /\ record.symbol = symbol
           /\ record.price = price
           /\ record.balance_after_trade = initial_capital'
           /\ record.action = "OPEN" =>
                 /\ initial_capital' =
                       (IF Len(trade_history') = k + 2
                        THEN trade_history'[k + 1].balance_after_trade
                        ELSE initial_capital)
                       - (record.shares * price + TransactionCost)
                 /\ HasPosition(positions', symbol)
                 /\ PositionOf(positions', symbol).type = DirectionOf(last'.arg)
                 /\ PositionOf(positions', symbol).entry_price = price
                 /\ PositionOf(positions', symbol).shares = record.shares
           /\ record.action = "CLOSE" =>
                 /\ HasPosition(positions, symbol)
                 /\ ~HasPosition(positions', symbol)
                 /\ initial_capital' = initial_capital
                       + GainAt(PositionOf(positions, symbol), price) - TransactionCost
    ]_vars

\* the write of a reversal's close failed: the caller got IOError, the
\* symbol is flat, the CLOSE record is kept and the file still shows the
\* closed position
C22_Witness ==
    /\ last.op = "execute_trade"
    /\ last.exc = "IOError"
    /\ ~HasPosition(positions, last.symbol)
    /\ Len(trade_history) = 2
    /\ trade_history[2].action = "CLOSE"
    /\ load_positions(positions_file).positions # positions

\* the records a step appended
Appended == SubSeq(trade_history', Len(trade_history) + 1, Len(trade_history'))

\* C23: the trade history is an append-only audit log: every successful
\* open appends exactly one OPEN record and every successful close exactly
\* one CLOSE record, and the history before any operation is an unchanged
\* prefix of the history after it (no record is mutated, reordered or
\* deleted).
C23_HistoryAppendOnly ==
    [][/\ Len(trade_history') >= Len(trade_history)
       /\ SubSeq(trade_history', 1, Len(trade_history)) = trade_history
       /\ last'.op = "open_position" =>
             IF positions' # positions \/ initial_capital' # initial_capital
             THEN /\ Len(Appended) = 1
                  /\ Appended[1].action = "OPEN"
                  /\ Appended[1].symbol = last'.symbol
                  /\ Appended[1].position_type = last'.arg
             ELSE Appended = <<>>
       /\ last'.op = "close_position" =>
             IF HasPosition(positions, last'.symbol)
             THEN /\ Len(Appended) = 1
                  /\ Appended[1].action = "CLOSE"
                  /\ Appended[1].symbol = last'.symbol
                  /\ Appended[1].position_type
                        = PositionOf(positions, last'.symbol).type
             ELSE Appended = <<>>
    ]_vars

\* an open and a close of one symbol, each through its own call, left an
\* OPEN record followed by a CLOSE record
C23_Witness ==
    /\ last.op = "close_position"
    /\ Len(trade_history) = 2
    /\ trade_history[1].action = "OPEN"
    /\ trade_history[2].action = "CLOSE"
    /\ trade_history[1].symbol = trade_history[2].symbol
    /\ trade_history[2].balance_after_trade # trade_history[1].balance_after_trade

-----------------------------------------------------------------------------
(* The trailing-stop check (Spec) *)

\* the step is a check_trailing_stop_loss of a symbol that holds a position
IsStopCheck ==
    /\ last'.op = "check_trailing_stop_loss"
    /\ HasPosition(positions, last'.symbol)

\* the extreme price after the ratchet: max with the current price for a
\* long, min for a short
RatchetedExtreme(position, price) ==
    IF position.type = "long"
    THEN (IF price > position.max_swing_high THEN price ELSE position.max_swing_high)
    ELSE (IF price < position.max_swing_high THEN price ELSE position.max_swing_high)

\* price <= extreme * (1 - stop/100) for a long, price >= extreme * (1 + stop/100)
\* for a short, with stop = num/den computed from the entry and current price
StopTriggered(position, price) ==
    LET stop == calculate_dynamic_trailing_stop_loss(price, position.entry_price,
                                                     position.type)
        extreme == RatchetedExtreme(position, price)
    IN IF position.type = "long"
       THEN price * 100 * stop[2] <= extreme * (100 * stop[2] - stop[1])
       ELSE price * 100 * stop[2] >= extreme * (100 * stop[2] + stop[1])

\* C24: check_trailing_stop_loss first ratchets the extreme price and then
\* closes the position if and only if the current price is at or beyond the
\* stop level measured from the ratcheted extreme; otherwise the position
\* stays open with only its extreme price possibly changed.
C24_RatchetThenTrigger ==
    [][IsStopCheck =>
        LET symbol == last'.symbol
            old == PositionOf(positions, symbol)
        IN IF StopTriggered(old, last'.price)
           THEN /\ ~HasPosition(positions', symbol)
                /\ Len(Appended) = 1
                /\ Appended[1].action = "CLOSE"
                /\ Appended[1].price = last'.price
           ELSE /\ positions' = DictSet(positions, symbol,
                      [old EXCEPT !.max_swing_high = RatchetedExtreme(old, last'.price)])
                /\ UNCHANGED <<initial_capital, trade_history, positions_file>>
    ]_vars

\* a check at 250 of a long entered at 100 moved the extreme and left the
\* position open
C24_Witness ==
    /\ last.op = "check_trailing_stop_loss"
    /\ last.price = 250
    /\ HasPosition(positions, last.symbol)
    /\ PositionOf(positions, last.symbol).type = "long"
    /\ PositionOf(positions, last.symbol).entry_price = 100
    /\ PositionOf(positions, last.symbol).max_swing_high = 250

\* the favourable return of the position at the price is below 5 percent
ReturnBelowFive(position, price) ==
    IF position.type = "long"
    THEN (price - position.entry_price) * 100 < 5 * position.entry_price
    ELSE (position.entry_price - price) * 100 < 5 * position.entry_price

\* C29: whenever check_trailing_stop_loss is called for an open position
\* whose favourable return at the current price is below 5% (the computed
\* stop is 0), with positive prices, the position is closed in that call,
\* for LONG and SHORT and whatever extreme price was stored.
C29_ZeroStopAlwaysCloses ==
    [][(IsStopCheck /\ ReturnBelowFive(PositionOf(positions, last'.symbol), last'.price))
       => /\ ~HasPosition(positions', last'.symbol)
          /\ Len(trade_history') = Len(trade_history) + 1
          /\ trade_history'[Len(trade_history')].action = "CLOSE"
          /\ trade_history'[Len(trade_history')].symbol = last'.symbol
    ]_vars

\* a check at the entry price itself closed the position at a loss of the
\* transaction cost
C29_Witness ==
    /\ last.op = "check_trailing_stop_loss"
    /\ ~HasPosition(positions, last.symbol)
    /\ Len(trade_history) = 2
    /\ trade_history[1].action = "OPEN"
    /\ trade_history[2].action = "CLOSE"
    /\ trade_history[2].price = trade_history[1].price
    /\ trade_history[2].balance_after_trade
          = trade_history[1].balance_after_trade - TransactionCost

-----------------------------------------------------------------------------
(* Reversal whose re-open is not affordable (Spec) *)

\* the step is an execute_trade of a signal against the opposite position
\* of its symbol, the positions are serializable and the file is written,
\* and the capital the close leaves does not cover the cost of the re-open
IsUnaffordableReversal ==
    /\ last'.op = "execute_trade"
    /\ last'.arg \in TradeSignals
    /\ HasPosition(positions, last'.symbol)
    /\ PositionOf(positions, last'.symbol).type # DirectionOf(last'.arg)
    /\ JsonSerializable(positions)
    /\ "ERROR write failed" \notin last'.log
    /\ LET credited == initial_capital
                         + GainAt(PositionOf(positions, last'.symbol), last'.price)
                         - TransactionCost
           n == calculate_shares(credited, last'.price)
       IN credited < n * last'.price + TransactionCost

-----------------------------------------------------------------------------
(* Properties of the ledger under any price (specification SpecAnyPrice) *)

\* C25: every position held in the ledger in any reachable state has
\* shares > 0 and entry_price > 0, whatever prices are passed to
\* execute_trade / open_position.
C25_PositionsWellFormed ==
    \A p \in positions : p.shares > 0 /\ p.entry_price > 0

\* the half that holds: the shares of a held position are a positive integer
C25_SharesPositive ==
    \A p \in positions : p.shares \in Nat \ {0}

-----------------------------------------------------------------------------
(* Construction of the simulator (specification SpecConstruct) *)

Constructed == call_state.pc \in {"done", "raised"}

\* C26: constructing TradeSimulator in LIVE mode succeeds and yields
\* positions equal to the content of the store when the file exists, and an
\* empty ledger when it does not; in BACKTEST mode the ledger starts empty.
C26_LiveLoadsStore ==
    Constructed =>
        /\ call_args.mode = "LIVE" /\ ~call_args.store.exists
               => call_state.pc = "done" /\ call_state.positions = {}
        /\ call_args.mode = "LIVE" /\ call_args.store.exists
                                   /\ call_args.store.file.valid
               => /\ call_state.pc = "done"
                  /\ call_state.positions = json_load(call_args.store.file.content)
        /\ call_args.mode = "BACKTEST"
               => call_state.pc = "done" /\ call_state.positions = {}

\* what the source does: in LIVE mode the construction always ends in
\* AttributeError, in BACKTEST mode the ledger starts empty
C26_LiveConstructionRaises ==
    Constructed =>
        IF call_args.mode = "LIVE"
        THEN call_state.pc = "raised" /\ call_state.exc = "AttributeError"
        ELSE call_state.pc = "done" /\ call_state.positions = {}
                /\ call_state.trade_history = <<>>

-----------------------------------------------------------------------------
(* The two rules (specification SpecRules) *)

FibDone == call_state.pc = "done" /\ call_args.op = "fibonacci_ichimoku_cci_strategy"
BollingerDone == call_state.pc = "done" /\ call_args.op = "bollinger_rsi_volume_strategy"

LevelBuys(i) ==
    /\ call_args.indicators.price >= call_args.indicators.levels[i]
    /\ call_args.indicators.price_above_cloud
    /\ Latest(call_args.indicators.cci) > -100
LevelSells(i) == call_args.indicators.price < call_args.indicators.levels[i]
LevelDecides(i) == LevelBuys(i) \/ LevelSells(i)
FirstDeciding(i) ==
    /\ i \in DOMAIN call_args.indicators.levels
    /\ LevelDecides(i)
    /\ \A j \in 1..(i - 1) : ~LevelDecides(j)

\* C27: the Fibonacci+Ichimoku+CCI rule goes through the levels in the
\* supplied order and the first deciding level wins: BUY at the first level
\* where price >= level, the price is above the cloud and CCI > -100, SELL
\* at the first level where price < level, HOLD exactly when no level
\* decides (an empty list included); the levels after the first deciding
\* one do not change the vote.
C27_FirstDecidingLevelWins ==
    FibDone =>
        LET levels == call_args.indicators.levels
        IN /\ call_state.vote = "BUY"
                 <=> \E i \in DOMAIN levels : FirstDeciding(i) /\ LevelBuys(i)
           /\ call_state.vote = "SELL"
                 <=> \E i \in DOMAIN levels : FirstDeciding(i) /\ LevelSells(i)
           /\ call_state.vote = "HOLD"
                 <=> \A i \in DOMAIN levels : ~LevelDecides(i)
           /\ \A i \in DOMAIN levels :
                 FirstDeciding(i) =>
                    \A rest \in SeqsUpTo(LevelValues, MaxLevels - i) :
                       fibonacci_ichimoku_cci_strategy(
                           [call_args.indicators EXCEPT
                               !.levels = SubSeq(levels, 1, i) \o rest])
                         = call_state.vote

\* the first level sells although a later level would buy
C27_Witness ==
    /\ FibDone
    /\ Len(call_args.indicators.levels) >= 2
    /\ LevelSells(1)
    /\ LevelBuys(2)
    /\ call_state.vote = "SELL"

\* C28: the Bollinger+RSI+Volume rule returns BUY exactly when the latest
\* price <= the latest lower band, the latest RSI < 30 and the latest volume
\* > the mean volume of the window; otherwise SELL exactly when the latest
\* price >= the latest upper band and the latest RSI > 70; otherwise HOLD.
C28_BollingerOnPrice ==
    BollingerDone =>
        LET ind == call_args.indicators
            buy == /\ ind.price <= Latest(ind.lowerband)
                   /\ Latest(ind.rsi) < 30
                   /\ Latest(ind.volume) * Len(ind.volume) > SeriesSum(ind.volume)
            sell == ind.price >= Latest(ind.upperband) /\ Latest(ind.rsi) > 70
        IN /\ call_state.vote = "BUY" <=> buy
           /\ call_state.vote = "SELL" <=> ~buy /\ sell
           /\ call_state.vote = "HOLD" <=> ~buy /\ ~sell

\* what the source computes: the same decision with the latest middle band
\* in the place of the price
C28_BollingerOnMiddleBand ==
    BollingerDone =>
        LET ind == call_args.indicators
            buy == /\ Latest(ind.middleband) <= Latest(ind.lowerband)
                   /\ Latest(ind.rsi) < 30
                   /\ Latest(ind.volume) * Len(ind.volume) > SeriesSum(ind.volume)
            sell == Latest(ind.middleband) >= Latest(ind.upperband)
                       /\ Latest(ind.rsi) > 70
        IN /\ call_state.vote = "BUY" <=> buy
           /\ call_state.vote = "SELL" <=> ~buy /\ sell
           /\ call_state.vote = "HOLD" <=> ~buy /\ ~sell

====
